---------------------------- MODULE Spec2Model ----------------------------
(***************************************************************************)
(* A model of const-sha1 (src/src/lib.rs): the SHA-1 compression core      *)
(* (process_state, r0..r4, blk, rol), the digest driver (sha1,             *)
(* sha1_from_const_slice, process_blocks, digest), the fixed-capacity      *)
(* buffer ConstSlice and the Digest result type.                           *)
(*                                                                         *)
(* Representation.  TLC integers are 32-bit signed, so a Rust u32 is a     *)
(* pair <<hi, lo>> of its two 16-bit halves (value = hi * 2^16 + lo); all  *)
(* u32 arithmetic is done on the halves and stays modulo 2^32.  A u8 is an *)
(* integer in 0..255.  Rust arrays and slices are 0-based; the sequences   *)
(* here are 1-based, so source index i is sequence index i + 1.            *)
(***************************************************************************)
EXTENDS Integers, Sequences, FiniteSets, TLC

\* 2^16: the weight of the high half of a u32
Half == 2 ^ 16

(***************************************************************************)
(* u32 primitives                                                          *)
(***************************************************************************)
\* bitwise AND of two naturals, bit by bit
RECURSIVE AndBits(_, _)
AndBits(m, n) ==
    IF m = 0 \/ n = 0 THEN 0
    ELSE ((m % 2) * (n % 2)) + 2 * AndBits(m \div 2, n \div 2)

\* AndBits on two bytes, tabulated once: AndByte[m + 1][n + 1] = m & n
AndByte ==
    [m \in 1..256 |-> ([n \in 1..256 |-> AndBits(m - 1, n - 1)] \o <<>>)] \o <<>>

\* `&`, `|` and `^` on 16-bit halves: AND bytewise from the table, and
\* m | n = m + n - (m & n), m ^ n = m + n - 2 * (m & n)
And16(m, n) ==
    (AndByte[(m \div 256) + 1][(n \div 256) + 1] * 256)
    + AndByte[(m % 256) + 1][(n % 256) + 1]
Or16(m, n) == (m + n) - And16(m, n)
Xor16(m, n) == (m + n) - (2 * And16(m, n))

\* `^`, `&` and `|` on u32
BitXor(p, q) == <<Xor16(p[1], q[1]), Xor16(p[2], q[2])>>
BitAnd(p, q) == <<And16(p[1], q[1]), And16(p[2], q[2])>>
BitOr(p, q) == <<Or16(p[1], q[1]), Or16(p[2], q[2])>>

\* u32::wrapping_add: addition modulo 2^32, the carry of the low half
\* propagated into the high half and the carry out of the high half dropped
wrapping_add(p, q) ==
    LET lo == p[2] + q[2]
        hi == p[1] + q[1] + (lo \div Half)
    IN  <<hi % Half, lo % Half>>

\* `value << n` on u32, 0 <= n < 32: the bits shifted past bit 31 are lost
Shl(p, n) ==
    IF n = 0 THEN p
    ELSE IF n < 16
         THEN <<((p[1] % (2 ^ (16 - n))) * (2 ^ n)) + (p[2] \div (2 ^ (16 - n))),
                (p[2] % (2 ^ (16 - n))) * (2 ^ n)>>
         ELSE <<(p[2] % (2 ^ (32 - n))) * (2 ^ (n - 16)), 0>>

\* `value >> n` on u32, 0 <= n < 32: logical shift, zeros enter at the top
Shr(p, n) ==
    IF n = 0 THEN p
    ELSE IF n < 16
         THEN <<p[1] \div (2 ^ n),
                ((p[1] % (2 ^ n)) * (2 ^ (16 - n))) + (p[2] \div (2 ^ n))>>
         ELSE <<0, p[1] \div (2 ^ (n - 16))>>

\* `byte as u32`
U32(byte) == <<0, byte>>

\* `word as u8`: the low 8 bits
AsU8(p) == p[2] % 256

HexChars == "0123456789abcdef"

\* the value of one hexadecimal digit
HexVal(ch) == CHOOSE d \in 0..15 : SubSeq(HexChars, d + 1, d + 1) = ch

RECURSIVE HexNat(_)
HexNat(str) ==
    IF Len(str) = 0 THEN 0
    ELSE (16 * HexNat(SubSeq(str, 1, Len(str) - 1)))
         + HexVal(SubSeq(str, Len(str), Len(str)))

\* the u32 literal 0x<str>, str of 8 hexadecimal digits
Hex32(str) == <<HexNat(SubSeq(str, 1, 4)), HexNat(SubSeq(str, 5, 8))>>

\* source index i of a Rust array or slice
At(arr, i) == arr[i + 1]

(***************************************************************************)
(* Block compression core                                                  *)
(***************************************************************************)
\* the additive constants of r0/r1, r2, r3 and r4
K_r0 == Hex32("5a827999")
K_r2 == Hex32("6ed9eba1")
K_r3 == Hex32("8f1bbcdc")
K_r4 == Hex32("ca62c1d6")

rol(value, bits) == BitOr(Shl(value, bits), Shr(value, 32 - bits))

\* blk with the rotation by one bit left out (the schedule of SHA-0): the
\* seeded fault that the known answers of C1 detect
blk_no_rotate(block, i) ==
    BitXor(BitXor(BitXor(At(block, (i + 13) % 16), At(block, (i + 8) % 16)),
                  At(block, (i + 2) % 16)),
           At(block, i))

blk(block, i) ==
    LET value == BitXor(BitXor(BitXor(At(block, (i + 13) % 16),
                                      At(block, (i + 8) % 16)),
                               At(block, (i + 2) % 16)),
                        At(block, i))
    IN  rol(value, 1)

\* the shared tail of r0..r4: z += n; w = rol(w, 30); (block, w, z)
RoundResult(block, n, w, z) == <<block, rol(w, 30), wrapping_add(z, n)>>

r0(block, v, w, x, y, z, i) ==
    LET n == wrapping_add(wrapping_add(wrapping_add(
                 BitXor(BitAnd(w, BitXor(x, y)), y),
                 At(block, i)), K_r0), rol(v, 5))
    IN  RoundResult(block, n, w, z)

r1(block0, v, w, x, y, z, i) ==
    LET block == [block0 EXCEPT ![i + 1] = blk(block0, i)]
        n == wrapping_add(wrapping_add(wrapping_add(
                 BitXor(BitAnd(w, BitXor(x, y)), y),
                 At(block, i)), K_r0), rol(v, 5))
    IN  RoundResult(block, n, w, z)

r2(block0, v, w, x, y, z, i) ==
    LET block == [block0 EXCEPT ![i + 1] = blk(block0, i)]
        n == wrapping_add(wrapping_add(wrapping_add(
                 BitXor(BitXor(w, x), y),
                 At(block, i)), K_r2), rol(v, 5))
    IN  RoundResult(block, n, w, z)

\* r3 with the mixing function of r2 and r4 in place of the majority: the
\* seeded fault that C10 detects
r3_parity(block0, v, w, x, y, z, i) ==
    LET block == [block0 EXCEPT ![i + 1] = blk(block0, i)]
        n == wrapping_add(wrapping_add(wrapping_add(
                 BitXor(BitXor(w, x), y),
                 At(block, i)), K_r3), rol(v, 5))
    IN  RoundResult(block, n, w, z)

r3(block0, v, w, x, y, z, i) ==
    LET block == [block0 EXCEPT ![i + 1] = blk(block0, i)]
        n == wrapping_add(wrapping_add(wrapping_add(
                 BitOr(BitAnd(BitOr(w, x), y), BitAnd(w, x)),
                 At(block, i)), K_r3), rol(v, 5))
    IN  RoundResult(block, n, w, z)

r4(block0, v, w, x, y, z, i) ==
    LET block == [block0 EXCEPT ![i + 1] = blk(block0, i)]
        n == wrapping_add(wrapping_add(wrapping_add(
                 BitXor(BitXor(w, x), y),
                 At(block, i)), K_r4), rol(v, 5))
    IN  RoundResult(block, n, w, z)

(***************************************************************************)
(* The 80 unrolled calls of process_state, one row per source line         *)
(* 187..266.  The row <<f, v, w, x, y, z, i>> is the statement             *)
(*     let (block, w, z) = f(block, v, w, x, y, z, i);                     *)
(* every line of the source rebinds exactly its second and fifth argument. *)
(***************************************************************************)
RoundCalls == <<
    <<"r0", "a", "b", "c", "d", "e", 0>>,
    <<"r0", "e", "a", "b", "c", "d", 1>>,
    <<"r0", "d", "e", "a", "b", "c", 2>>,
    <<"r0", "c", "d", "e", "a", "b", 3>>,
    <<"r0", "b", "c", "d", "e", "a", 4>>,
    <<"r0", "a", "b", "c", "d", "e", 5>>,
    <<"r0", "e", "a", "b", "c", "d", 6>>,
    <<"r0", "d", "e", "a", "b", "c", 7>>,
    <<"r0", "c", "d", "e", "a", "b", 8>>,
    <<"r0", "b", "c", "d", "e", "a", 9>>,
    <<"r0", "a", "b", "c", "d", "e", 10>>,
    <<"r0", "e", "a", "b", "c", "d", 11>>,
    <<"r0", "d", "e", "a", "b", "c", 12>>,
    <<"r0", "c", "d", "e", "a", "b", 13>>,
    <<"r0", "b", "c", "d", "e", "a", 14>>,
    <<"r0", "a", "b", "c", "d", "e", 15>>,
    <<"r1", "e", "a", "b", "c", "d", 0>>,
    <<"r1", "d", "e", "a", "b", "c", 1>>,
    <<"r1", "c", "d", "e", "a", "b", 2>>,
    <<"r1", "b", "c", "d", "e", "a", 3>>,
    <<"r2", "a", "b", "c", "d", "e", 4>>,
    <<"r2", "e", "a", "b", "c", "d", 5>>,
    <<"r2", "d", "e", "a", "b", "c", 6>>,
    <<"r2", "c", "d", "e", "a", "b", 7>>,
    <<"r2", "b", "c", "d", "e", "a", 8>>,
    <<"r2", "a", "b", "c", "d", "e", 9>>,
    <<"r2", "e", "a", "b", "c", "d", 10>>,
    <<"r2", "d", "e", "a", "b", "c", 11>>,
    <<"r2", "c", "d", "e", "a", "b", 12>>,
    <<"r2", "b", "c", "d", "e", "a", 13>>,
    <<"r2", "a", "b", "c", "d", "e", 14>>,
    <<"r2", "e", "a", "b", "c", "d", 15>>,
    <<"r2", "d", "e", "a", "b", "c", 0>>,
    <<"r2", "c", "d", "e", "a", "b", 1>>,
    <<"r2", "b", "c", "d", "e", "a", 2>>,
    <<"r2", "a", "b", "c", "d", "e", 3>>,
    <<"r2", "e", "a", "b", "c", "d", 4>>,
    <<"r2", "d", "e", "a", "b", "c", 5>>,
    <<"r2", "c", "d", "e", "a", "b", 6>>,
    <<"r2", "b", "c", "d", "e", "a", 7>>,
    <<"r3", "a", "b", "c", "d", "e", 8>>,
    <<"r3", "e", "a", "b", "c", "d", 9>>,
    <<"r3", "d", "e", "a", "b", "c", 10>>,
    <<"r3", "c", "d", "e", "a", "b", 11>>,
    <<"r3", "b", "c", "d", "e", "a", 12>>,
    <<"r3", "a", "b", "c", "d", "e", 13>>,
    <<"r3", "e", "a", "b", "c", "d", 14>>,
    <<"r3", "d", "e", "a", "b", "c", 15>>,
    <<"r3", "c", "d", "e", "a", "b", 0>>,
    <<"r3", "b", "c", "d", "e", "a", 1>>,
    <<"r3", "a", "b", "c", "d", "e", 2>>,
    <<"r3", "e", "a", "b", "c", "d", 3>>,
    <<"r3", "d", "e", "a", "b", "c", 4>>,
    <<"r3", "c", "d", "e", "a", "b", 5>>,
    <<"r3", "b", "c", "d", "e", "a", 6>>,
    <<"r3", "a", "b", "c", "d", "e", 7>>,
    <<"r3", "e", "a", "b", "c", "d", 8>>,
    <<"r3", "d", "e", "a", "b", "c", 9>>,
    <<"r3", "c", "d", "e", "a", "b", 10>>,
    <<"r3", "b", "c", "d", "e", "a", 11>>,
    <<"r4", "a", "b", "c", "d", "e", 12>>,
    <<"r4", "e", "a", "b", "c", "d", 13>>,
    <<"r4", "d", "e", "a", "b", "c", 14>>,
    <<"r4", "c", "d", "e", "a", "b", 15>>,
    <<"r4", "b", "c", "d", "e", "a", 0>>,
    <<"r4", "a", "b", "c", "d", "e", 1>>,
    <<"r4", "e", "a", "b", "c", "d", 2>>,
    <<"r4", "d", "e", "a", "b", "c", 3>>,
    <<"r4", "c", "d", "e", "a", "b", 4>>,
    <<"r4", "b", "c", "d", "e", "a", 5>>,
    <<"r4", "a", "b", "c", "d", "e", 6>>,
    <<"r4", "e", "a", "b", "c", "d", 7>>,
    <<"r4", "d", "e", "a", "b", "c", 8>>,
    <<"r4", "c", "d", "e", "a", "b", 9>>,
    <<"r4", "b", "c", "d", "e", "a", 10>>,
    <<"r4", "a", "b", "c", "d", "e", 11>>,
    <<"r4", "e", "a", "b", "c", "d", 12>>,
    <<"r4", "d", "e", "a", "b", "c", 13>>,
    <<"r4", "c", "d", "e", "a", "b", 14>>,
    <<"r4", "b", "c", "d", "e", "a", 15>>
>>

\* one `let (block, w, z) = rN(block, v, w, x, y, z, i);`: the statement
\* env.line of the unrolled body, after which control is at the next line
RoundCall(env) ==
    LET c == RoundCalls[env.line]
        f == c[1]
        v == env[c[2]]
        w == env[c[3]]
        x == env[c[4]]
        y == env[c[5]]
        z == env[c[6]]
        i == c[7]
        res == CASE f = "r0" -> r0(env.block, v, w, x, y, z, i)
                 [] f = "r1" -> r1(env.block, v, w, x, y, z, i)
                 [] f = "r2" -> r2(env.block, v, w, x, y, z, i)
                 [] f = "r3" -> r3(env.block, v, w, x, y, z, i)
                 [] f = "r4" -> r4(env.block, v, w, x, y, z, i)
    IN  [[[[env EXCEPT !.block = res[1]] EXCEPT ![c[3]] = res[2]]
               EXCEPT ![c[6]] = res[3]] EXCEPT !.line = env.line + 1]

\* the statements from env.line to the last one, in order
RECURSIVE RunRoundCalls(_)
RunRoundCalls(env) ==
    IF env.line > Len(RoundCalls) THEN env
    ELSE RunRoundCalls(RoundCall(env))

process_state(state, block) ==
    LET env0 == [line |-> 1, block |-> block, a |-> state[1], b |-> state[2],
                 c |-> state[3], d |-> state[4], e |-> state[5]]
        env == RunRoundCalls(env0)
    IN  <<wrapping_add(state[1], env.a),
          wrapping_add(state[2], env.b),
          wrapping_add(state[3], env.c),
          wrapping_add(state[4], env.d),
          wrapping_add(state[5], env.e)>>

(***************************************************************************)
(* Fixed-capacity buffer: ConstSlice                                       *)
(***************************************************************************)
BUFFER_SIZE == 1024

\* [0; n]
Zeros(n) == [j \in 1..n |-> 0] \o <<>>

\* ConstSlice::new
ConstSlice_new == [data |-> Zeros(BUFFER_SIZE), head |-> 0]

\* ConstSlice::get
ConstSlice_get(self, index) == At(self.data, index)

\* len() answering the size of the backing array: the seeded fault that C4
\* detects
ConstSlice_len_capacity(self) == Len(self.data)

\* ConstSlice::len
ConstSlice_len(self) == self.head

\* as_slice() cut at the cursor: the seeded fault that C7 detects
ConstSlice_as_slice_written(self) == SubSeq(self.data, 1, self.head)

\* ConstSlice::as_slice: a reference to the whole backing array
ConstSlice_as_slice(self) == self.data

\* The iteration without the bounds check of the array: a store past the
\* end is dropped and the loop goes on.  The seeded fault that C5 and C6
\* detect.
push_amount_iter_unchecked(st, slice) ==
    IF st.self.head + st.i >= BUFFER_SIZE
    THEN [st EXCEPT !.stored = st.self.head + st.i + 1, !.i = st.i + 1]
    ELSE [st EXCEPT !.self.data[st.self.head + st.i + 1] = At(slice, st.i),
                    !.stored = st.self.head + st.i + 1,
                    !.i = st.i + 1]

\* The iteration storing at self.data[i], without the offset self.head: an
\* append that writes over the start of the buffer.  The seeded fault that
\* C11 detects.
push_amount_iter_at_start(st, slice) ==
    IF st.i >= Len(slice) \/ st.self.head + st.i >= BUFFER_SIZE
    THEN [st EXCEPT !.panicked = TRUE]
    ELSE [st EXCEPT !.self.data[st.i + 1] = At(slice, st.i),
                    !.stored = st.self.head + st.i + 1,
                    !.i = st.i + 1]

\* One iteration of the loop of push_amount, entered with i < amount:
\*     self.data[self.head + i] = slice[i]; i += 1;
\* Indexing is bounds-checked: an index past the end of either the slice or
\* the array panics, and nothing is stored.  stored is the highest array
\* position (1-based) the loop has stored to.
push_amount_iter(st, slice) ==
    IF st.i >= Len(slice) \/ st.self.head + st.i >= BUFFER_SIZE
    THEN [st EXCEPT !.panicked = TRUE]
    ELSE [st EXCEPT !.self.data[st.self.head + st.i + 1] = At(slice, st.i),
                    !.stored = st.self.head + st.i + 1,
                    !.i = st.i + 1]

\* n consecutive iterations of the loop (a panic ends it); the count is
\* halved rather than walked one by one to keep the evaluation stack shallow
RECURSIVE push_amount_loop(_, _, _)
push_amount_loop(st, slice, n) ==
    IF st.panicked \/ n = 0 THEN st
    ELSE IF n = 1 THEN push_amount_iter(st, slice)
    ELSE push_amount_loop(push_amount_loop(st, slice, n \div 2), slice,
                          n - (n \div 2))

\* ConstSlice::push_amount.  The result is the returned ConstSlice in self,
\* or panicked = TRUE when the call unwinds and returns nothing.
push_amount(self, slice, amount) ==
    LET st == push_amount_loop([self |-> self, i |-> 0, panicked |-> FALSE,
                                stored |-> 0], slice, amount)
    IN  IF st.panicked THEN st
        ELSE [st EXCEPT !.self.head = st.self.head + st.i]

\* ConstSlice::push_slice
push_slice(self, slice) == push_amount(self, slice, Len(slice))

\* ConstSlice::from_slice
from_slice(slice) == push_slice(ConstSlice_new, slice)

\* ConstSlice::push_other
push_other(self, other) ==
    push_amount(self, ConstSlice_as_slice(other), ConstSlice_len(other))

(***************************************************************************)
(* Digest driver                                                           *)
(***************************************************************************)
\* the initial state of sha1 and sha1_from_const_slice
InitialState ==
    <<Hex32("67452301"), Hex32("efcdab89"), Hex32("98badcfe"),
      Hex32("10325476"), Hex32("c3d2e1f0")>>

\* Blocks { len: 0, data: [0; 64] }
InitialBlocks == [len |-> 0, data |-> Zeros(64)]

\* process_blocks::as_block: 16 words, each packed big-endian from 4 bytes
process_blocks_as_block(input, offset) ==
    [i \in 1..16 |->
        LET off == offset + ((i - 1) * 4)
        IN  BitOr(BitOr(BitOr(BitOr(U32(0), Shl(U32(At(input, off + 3)), 0)),
                                    Shl(U32(At(input, off + 2)), 8)),
                              Shl(U32(At(input, off + 1)), 16)),
                  Shl(U32(At(input, off + 0)), 24))] \o <<>>

\* digest::as_block
digest_as_block(input, offset) ==
    [i \in 1..16 |->
        LET off == offset + ((i - 1) * 4)
        IN  BitOr(BitOr(BitOr(U32(At(input, off + 3)),
                              Shl(U32(At(input, off + 2)), 8)),
                        Shl(U32(At(input, off + 1)), 16)),
                  Shl(U32(At(input, off)), 24))] \o <<>>

\* process_blocks::clone_from_slice_64 and digest::clone_from_slice_128:
\*     while i < num_elems { data[i] = slice[offset + i]; i += 1 }
RECURSIVE clone_from_slice_loop(_, _, _, _)
clone_from_slice_loop(st, slice, offset, num_elems) ==
    IF st.i < num_elems
    THEN clone_from_slice_loop(
             [data |-> [st.data EXCEPT ![st.i + 1] = At(slice, offset + st.i)],
              i |-> st.i + 1], slice, offset, num_elems)
    ELSE st.data

\* the tail copied from the start of the slice instead of from offset: the
\* seeded fault that C3 detects
clone_from_slice_64_no_offset(data, slice, offset, num_elems) ==
    clone_from_slice_loop([data |-> data, i |-> 0], slice, 0, num_elems)

clone_from_slice_64(data, slice, offset, num_elems) ==
    clone_from_slice_loop([data |-> data, i |-> 0], slice, offset, num_elems)

clone_from_slice_128(data, slice, offset, num_elems) ==
    clone_from_slice_loop([data |-> data, i |-> 0], slice, offset, num_elems)

\* digest::clone_slice_128:
\*     while i < slice.len() { data[offset + i] = slice[i]; i += 1 }
RECURSIVE clone_slice_loop(_, _, _)
clone_slice_loop(st, slice, offset) ==
    IF st.i < Len(slice)
    THEN clone_slice_loop(
             [data |-> [st.data EXCEPT ![offset + st.i + 1] = At(slice, st.i)],
              i |-> st.i + 1], slice, offset)
    ELSE st.data

clone_slice_128(data, slice, offset) ==
    clone_slice_loop([data |-> data, i |-> 0], slice, offset)

\* `(bits >> n) as u8` on the u64 bit count.  Every length of the model is
\* below 2^28 bytes, so bits < 2^31 and the shifts by 32 and more give 0.
BitsByte(bits, n) == IF n >= 31 THEN 0 ELSE (bits \div (2 ^ n)) % 256

\* digest, lines 315..325: the bit count and its 8 big-endian bytes
digest_extra(len, blocks) ==
    LET bits == (len + blocks.len) * 8
    IN  <<BitsByte(bits, 56), BitsByte(bits, 48), BitsByte(bits, 40),
          BitsByte(bits, 32), BitsByte(bits, 24), BitsByte(bits, 16),
          BitsByte(bits, 8), BitsByte(bits, 0)>>

\* digest, lines 326..329: the tail followed by 0x80 in a zeroed [u8; 128]
digest_last(blocks) ==
    LET blocklen == blocks.len
        last == clone_from_slice_128(Zeros(128), blocks.data, 0, blocklen)
    IN  [last EXCEPT ![blocklen + 1] = 128]

\* the single final block chosen whenever the tail and 0x80 fit in 64
\* bytes, the 8 length bytes forgotten: the seeded fault that C2 and C9
\* detect
digest_single_64(blocklen) == blocklen < 64

\* digest, line 331: the test that selects the single final block
digest_single(blocklen) == blocklen < 56

(***************************************************************************)
(* Digest result                                                           *)
(***************************************************************************)
\* Digest::as_bytes
as_bytes(self) ==
    <<AsU8(Shr(self.data[1], 24)), AsU8(Shr(self.data[1], 16)),
      AsU8(Shr(self.data[1], 8)),  AsU8(Shr(self.data[1], 0)),
      AsU8(Shr(self.data[2], 24)), AsU8(Shr(self.data[2], 16)),
      AsU8(Shr(self.data[2], 8)),  AsU8(Shr(self.data[2], 0)),
      AsU8(Shr(self.data[3], 24)), AsU8(Shr(self.data[3], 16)),
      AsU8(Shr(self.data[3], 8)),  AsU8(Shr(self.data[3], 0)),
      AsU8(Shr(self.data[4], 24)), AsU8(Shr(self.data[4], 16)),
      AsU8(Shr(self.data[4], 8)),  AsU8(Shr(self.data[4], 0)),
      AsU8(Shr(self.data[5], 24)), AsU8(Shr(self.data[5], 16)),
      AsU8(Shr(self.data[5], 8)),  AsU8(Shr(self.data[5], 0))>>

\* the lowercase hexadecimal digits of a natural, without leading zeros
RECURSIVE LowerHexNat(_)
LowerHexNat(n) ==
    IF n < 16 THEN SubSeq(HexChars, n + 1, n + 1)
    ELSE LowerHexNat(n \div 16) \o SubSeq(HexChars, (n % 16) + 1, (n % 16) + 1)

\* `0` repeated until the string is at least `width` long
RECURSIVE ZeroPad(_, _)
ZeroPad(str, width) ==
    IF Len(str) >= width THEN str ELSE ZeroPad("0" \o str, width)

\* the `x` of a format spec on a u32: its digits without leading zeros
LowerHex(p) ==
    IF p[1] = 0 THEN LowerHexNat(p[2])
    ELSE LowerHexNat(p[1]) \o ZeroPad(LowerHexNat(p[2]), 4)

\* "{:x}" in place of "{:08x}": the seeded fault that C8 detects
Format_x(p) == LowerHex(p)

\* write!(f, "{:08x}", i): zero-padded on the left to at least 8 characters
Format08x(p) == ZeroPad(LowerHex(p), 8)

\* impl fmt::Display for Digest
RECURSIVE fmt_loop(_, _)
fmt_loop(words, f) ==
    IF Len(words) = 0 THEN f
    ELSE fmt_loop(Tail(words), f \o Format08x(Head(words)))

fmt(self) == fmt_loop(self.data, "")

(***************************************************************************)
(* Inputs                                                                  *)
(***************************************************************************)
\* the printable ASCII characters 0x20..0x5f and 0x61..0x7e, in order (a
\* string literal cannot hold 0x60, which no test string uses)
PrintableLow == " !\"#$%&'()*+,-./0123456789:;<=>?@ABCDEFGHIJKLMNOPQRSTUVWXYZ[\\]^_"
PrintableHigh == "abcdefghijklmnopqrstuvwxyz{|}~"

\* the position of a character in a string that holds it, 0 otherwise
IndexIn(str, ch) ==
    IF \E k \in 1..Len(str) : SubSeq(str, k, k) = ch
    THEN CHOOSE k \in 1..Len(str) : SubSeq(str, k, k) = ch
    ELSE 0

\* the byte of one character of a test string
ByteOf(ch) ==
    IF ch = "\n" THEN 10
    ELSE IF IndexIn(PrintableLow, ch) > 0 THEN 31 + IndexIn(PrintableLow, ch)
    ELSE 96 + IndexIn(PrintableHigh, ch)

\* str::as_bytes on an ASCII string
str_as_bytes(str) == [j \in 1..Len(str) |-> ByteOf(SubSeq(str, j, j))] \o <<>>

\* the table `tests` of tests::it_works: (input, expected rendering)
tests == <<
    <<"The quick brown fox jumps over the lazy dog",
      "2fd4e1c67a2d28fced849ee1bb76e7391b93eb12">>,
    <<"The quick brown fox jumps over the lazy cog",
      "de9f2c7fd25e1b3afad3e85a0bd17d9b100db4b3">>,
    <<"",
      "da39a3ee5e6b4b0d3255bfef95601890afd80709">>,
    <<"testing\n",
      "9801739daae44ec5293d4e1f53d3f4d2d426d91c">>,
    <<"xxxxxxxxxxxxxxxxxxxxxxxxxxxxxxxxxxxxxxxxxxxxxxxxxxxxxxxxx",
      "025ecbd5d70f8fb3c5457cd96bab13fda305dc59">>,
    <<"xxxxxxxxxxxxxxxxxxxxxxxxxxxxxxxxxxxxxxxxxxxxxxxxxxxxxxxxxxxxxxxxxxxxxxxxxxxxxxxxxxxxxxxxxxxxxxxxxxxxxxxxxxxxxxxxxxxxxxx",
      "4300320394f7ee239bcdce7d3b8bcee173a0cd5c">>,
    <<"xxxxxxxxxxxxxxxxxxxxxxxxxxxxxxxxxxxxxxxxxxxxxxxxxxxxxxx",
      "cef734ba81a024479e09eb5a75b6ddae62e6abf1">>,
    <<"pinterface({1f6db258-e803-48a1-9546-eb7353398884};pinterface({faa585ea-6214-4217-afda-7f46de5869b3};{96369f54-8eb6-48f0-abce-c1b211e627c3}))",
      "b1b3deeb1552c97f3f36152f7baeec0f6ac159bc">>,
    <<"Lorem ipsum dolor sit amet, consectetur adipiscing elit. Nulla aliquet varius molestie. Morbi eu est id massa fringilla gravida. Class aptent taciti sociosqu ad litora torquent per conubia nostra, per inceptos himenaeos. Duis pharetra facilisis ipsum et faucibus. Donec ut magna posuere, pretium nunc nec, egestas sem. Vivamus mattis ex neque, eu vehicula ex pharetra vitae. Aliquam ac cursus nunc. Duis ac nibh non velit ultrices luctus eu eu orci. Aenean suscipit sem a risus convallis ultrices. Nullam accumsan, turpis at pharetra porttitor, augue nisi pulvinar neque, id mattis ex eros ac diam. Praesent ultrices, ex sed elementum viverra, nunc ligula efficitur tellus, vel placerat dui dui in odio. Vivamus gravida pulvinar nisl, sit amet laoreet augue tristique at. Nunc in velit nisi. Praesent suscipit, mi quis dictum aliquet, lacus nulla ornare arcu, sit amet hendrerit urna ex a erat. Donec tempor lorem libero, sed aliquam libero tristique vitae.\nAenean nisl ipsum, pharetra id sollicitudin vitae, rhoncus eu est. Integer at sem sem. Duis venenatis dapibus ornare. Donec fermentum scelerisque lectus, sit amet tempus turpis sodales ut. Maecenas ultrices libero quis pulvinar auctor. Maecenas et enim vel eros pretium iaculis. Aenean luctus convallis lectus ut convallis. Maecenas eu orci quis lacus tincidunt tristique eget id odio. Quisque sit amet dictum nunc, molestie dapibus massa. Integer ultricies enim massa, et semper ligula imperdiet ut. Proin malesuada dapibus magna a bibendum. Phasellus quis vehicula lorem. Quisque sit amet tempor erat, eu mollis odio. Proin consequat interdum cursus. Vivamus ornare enim et tincidunt interdum. Nam suscipit magna a ex tempor tempor eget a nisl.\nProin aliquet ligula mollis bibendum malesuada. Fusce ac eros nunc. Quisque vel commodo ligula, ac efficitur nisl. Phasellus in ipsum et tortor elementum laoreet nec rutrum libero. Cras ut justo eleifend, vulputate sapien vel, tempus libero. Integer a nisi a mauris varius scelerisque vitae at felis. Phasellus sit amet iaculis libero porttitor.",
      "30648ad988839ad25365fe1674417eca19c7da01">>
>>

\* the byte sequences of the table, in order
TestBytes == [t \in 1..Len(tests) |-> str_as_bytes(tests[t][1])] \o <<>>

\* the longest generated input, and the lengths generated near the capacity
\* of a ConstSlice
MaxLen == 130
NearCapacity == {BUFFER_SIZE - 1, BUFFER_SIZE}

\* n bytes, each 'x'
XInput(n) == [j \in 1..n |-> 120] \o <<>>

\* n bytes that differ from their neighbours and from one length to the next
PatternInput(n) == [j \in 1..n |-> ((37 * j) + (11 * n)) % 256] \o <<>>

\* the all-'x' lengths the specification names beside those of the table
XLens == {59, 125}

Inputs ==
    {TestBytes[t] : t \in 1..Len(tests)}
    \cup {PatternInput(n) : n \in 0..MaxLen}
    \cup {PatternInput(n) : n \in NearCapacity}
    \cup {XInput(n) : n \in XLens}

(***************************************************************************)
(* State                                                                   *)
(***************************************************************************)
VARIABLES
    \* one run of tests::it_works on one row: sha1, then sha1_from_const_slice
    input,      \* the bytes under test
    entry,      \* the entry point running or last run
    pc,         \* where control is
    data,       \* process_blocks: the slice argument
    data_len,   \* process_blocks: data_len
    len,        \* process_blocks: len (bytes consumed by the loop)
    state,      \* the five state words
    blocks,     \* the pending tail: Blocks { len, data }
    last,       \* digest: the [u8; 128] holding the padded tail
    fed,        \* the blocks handed to process_state so far, in call order
    results,    \* the Digests returned so far, in call order
    \* a ConstSlice under a sequence of appends
    buf,        \* <<the ConstSlice>>, or <<>> once an append has panicked
    status,     \* "ok" | "panicked"
    content,    \* the bytes appended so far, in order
    lastop,     \* the last append: its kind, the cursor before it, its amount
    pushes,     \* appends made
    stored,     \* the highest array position the last append stored to
    \* a Digest and its two renderings
    dg, dg_bytes, dg_text,
    \* one compression call
    cstate, cblock, cout, chained

shaVars ==
    <<input, entry, pc, data, data_len, len, state, blocks, last, fed, results>>
bufVars == <<buf, status, content, lastop, pushes, stored>>
dgVars == <<dg, dg_bytes, dg_text>>
coreVars == <<cstate, cblock, cout, chained>>
vars == <<shaVars, bufVars, dgVars, coreVars>>

\* the parts of the state a specification does not exercise
ShaIdle ==
    /\ input = <<>> /\ entry = "none" /\ pc = "idle" /\ data = <<>>
    /\ data_len = 0 /\ len = 0 /\ state = InitialState
    /\ blocks = InitialBlocks /\ last = <<>> /\ fed = <<>> /\ results = <<>>
BufIdle ==
    /\ buf = <<>> /\ status = "ok" /\ content = <<>>
    /\ lastop = [op |-> "none", head |-> 0, amount |-> 0]
    /\ pushes = 0 /\ stored = 0
DgIdle == dg = [data |-> <<>>] /\ dg_bytes = <<>> /\ dg_text = ""
CoreIdle == cstate = <<>> /\ cblock = <<>> /\ cout = <<>> /\ chained = 0

(***************************************************************************)
(* The digest driver, one row of tests::it_works at a time                 *)
(***************************************************************************)
ShaInit ==
    /\ input \in Inputs
    /\ entry = "none" /\ pc = "idle" /\ data = <<>>
    /\ data_len = 0 /\ len = 0 /\ state = InitialState
    /\ blocks = InitialBlocks /\ last = <<>> /\ fed = <<>> /\ results = <<>>

\* sha1(data), up to the call of process_blocks
CallSha1 ==
    /\ pc = "idle"
    /\ entry' = "sha1"
    /\ state' = InitialState
    /\ blocks' = InitialBlocks
    /\ data' = input
    /\ data_len' = Len(input)
    /\ len' = 0
    /\ fed' = <<>>
    /\ pc' = "process_blocks"
    /\ UNCHANGED <<input, last, results>>

\* sha1_from_const_slice(&ConstSlice::from_slice(s)), for the rows the
\* test keeps (s.len() <= BUFFER_SIZE), up to the call of process_blocks
CallSha1FromConstSlice ==
    /\ pc = "done" /\ entry = "sha1"
    /\ Len(input) <= BUFFER_SIZE
    /\ LET cs == from_slice(input).self
       IN  /\ data' = ConstSlice_as_slice(cs)
           /\ data_len' = ConstSlice_len(cs)
    /\ entry' = "sha1_from_const_slice"
    /\ state' = InitialState
    /\ blocks' = InitialBlocks
    /\ len' = 0
    /\ fed' = <<>>
    /\ pc' = "process_blocks"
    /\ UNCHANGED <<input, last, results>>

\* process_blocks, the loop body when left >= 64
ProcessBlocksFull ==
    /\ pc = "process_blocks"
    /\ len < data_len
    /\ data_len - len >= 64
    /\ LET chunk_block == process_blocks_as_block(data, len)
       IN  /\ state' = process_state(state, chunk_block)
           /\ fed' = Append(fed, [by |-> "process_blocks", block |-> chunk_block])
    /\ len' = len + 64
    /\ UNCHANGED <<input, entry, pc, data, data_len, blocks, last, results>>

\* process_blocks, the loop body when left < 64: keep the tail, break, return
ProcessBlocksTail ==
    /\ pc = "process_blocks"
    /\ len < data_len
    /\ data_len - len < 64
    /\ LET left == data_len - len
       IN  blocks' = [data |-> clone_from_slice_64(blocks.data, data, len, left),
                      len |-> left]
    /\ pc' = "digest"
    /\ UNCHANGED <<input, entry, data, data_len, len, state, last, fed, results>>

\* process_blocks, the loop condition false: return
ProcessBlocksReturn ==
    /\ pc = "process_blocks"
    /\ ~(len < data_len)
    /\ pc' = "digest"
    /\ UNCHANGED <<input, entry, data, data_len, len, state, blocks, last, fed, results>>

\* digest, lines 315..332: the padded tail when blocklen < 56
DigestPadSingle ==
    /\ pc = "digest"
    /\ digest_single(blocks.len)
    /\ last' = clone_slice_128(digest_last(blocks), digest_extra(len, blocks), 56)
    /\ pc' = "final_1_of_1"
    /\ UNCHANGED <<input, entry, data, data_len, len, state, blocks, fed, results>>

\* digest, lines 315..335: the padded tail in the else branch
DigestPadDouble ==
    /\ pc = "digest"
    /\ ~digest_single(blocks.len)
    /\ last' = clone_slice_128(digest_last(blocks), digest_extra(len, blocks), 120)
    /\ pc' = "final_1_of_2"
    /\ UNCHANGED <<input, entry, data, data_len, len, state, blocks, fed, results>>

\* digest, line 333 and then line 339: the only final block, and the return
DigestSingle ==
    /\ pc = "final_1_of_1"
    /\ state' = process_state(state, digest_as_block(last, 0))
    /\ fed' = Append(fed, [by |-> "digest", block |-> digest_as_block(last, 0)])
    /\ results' = Append(results, [data |-> state'])
    /\ pc' = "done"
    /\ UNCHANGED <<input, entry, data, data_len, len, blocks, last>>

\* digest, line 336: the first of two final blocks
DigestDoubleFirst ==
    /\ pc = "final_1_of_2"
    /\ state' = process_state(state, digest_as_block(last, 0))
    /\ fed' = Append(fed, [by |-> "digest", block |-> digest_as_block(last, 0)])
    /\ pc' = "final_2_of_2"
    /\ UNCHANGED <<input, entry, data, data_len, len, blocks, last, results>>

\* digest, line 337 and then line 339: the second final block, and the return
DigestDoubleSecond ==
    /\ pc = "final_2_of_2"
    /\ state' = process_state(state, digest_as_block(last, 64))
    /\ fed' = Append(fed, [by |-> "digest", block |-> digest_as_block(last, 64)])
    /\ results' = Append(results, [data |-> state'])
    /\ pc' = "done"
    /\ UNCHANGED <<input, entry, data, data_len, len, blocks, last>>

Init == ShaInit /\ BufIdle /\ DgIdle /\ CoreIdle

Next ==
    \/ CallSha1 /\ UNCHANGED <<bufVars, dgVars, coreVars>>
    \/ CallSha1FromConstSlice /\ UNCHANGED <<bufVars, dgVars, coreVars>>
    \/ ProcessBlocksFull /\ UNCHANGED <<bufVars, dgVars, coreVars>>
    \/ ProcessBlocksTail /\ UNCHANGED <<bufVars, dgVars, coreVars>>
    \/ ProcessBlocksReturn /\ UNCHANGED <<bufVars, dgVars, coreVars>>
    \/ DigestPadSingle /\ UNCHANGED <<bufVars, dgVars, coreVars>>
    \/ DigestPadDouble /\ UNCHANGED <<bufVars, dgVars, coreVars>>
    \/ DigestSingle /\ UNCHANGED <<bufVars, dgVars, coreVars>>
    \/ DigestDoubleFirst /\ UNCHANGED <<bufVars, dgVars, coreVars>>
    \/ DigestDoubleSecond /\ UNCHANGED <<bufVars, dgVars, coreVars>>

Spec == Init /\ [][Next]_vars

(***************************************************************************)
(* A ConstSlice under a sequence of appends                                *)
(***************************************************************************)
\* the appends one run makes at most
MaxPushes == 3

\* the lengths of the byte sequences appended
ChunkLens == {0, 1, 400, 623, BUFFER_SIZE, BUFFER_SIZE + 1}

\* n bytes to append, none of them zero
Chunk(n) == [j \in 1..n |-> 1 + (((7 * j) + n) % 255)] \o <<>>

BufInit ==
    /\ buf = <<ConstSlice_new>>
    /\ status = "ok"
    /\ content = <<>>
    /\ lastop = [op |-> "new", head |-> 0, amount |-> 0]
    /\ pushes = 0
    /\ stored = 0

\* what an append that ran to `res` leaves behind: the returned ConstSlice,
\* or nothing when the call panicked
Returned(res, appended) ==
    /\ stored' = res.stored
    /\ IF res.panicked
       THEN /\ buf' = <<>>
            /\ status' = "panicked"
            /\ UNCHANGED content
       ELSE /\ buf' = <<res.self>>
            /\ status' = "ok"
            /\ content' = appended

\* ConstSlice::from_slice(slice)
FromSlice(n) ==
    /\ status = "ok" /\ pushes < MaxPushes
    /\ lastop' = [op |-> "from_slice", head |-> 0, amount |-> n]
    /\ pushes' = pushes + 1
    /\ Returned(from_slice(Chunk(n)), Chunk(n))

\* self.push_slice(slice)
PushSlice(n) ==
    /\ status = "ok" /\ pushes < MaxPushes
    /\ lastop' = [op |-> "push_slice", head |-> buf[1].head, amount |-> n]
    /\ pushes' = pushes + 1
    /\ Returned(push_slice(buf[1], Chunk(n)), content \o Chunk(n))

\* self.push_other(other), other a ConstSlice made by from_slice
PushOther(n) ==
    /\ status = "ok" /\ pushes < MaxPushes
    /\ n <= BUFFER_SIZE
    /\ lastop' = [op |-> "push_other", head |-> buf[1].head, amount |-> n]
    /\ pushes' = pushes + 1
    /\ Returned(push_other(buf[1], from_slice(Chunk(n)).self),
                content \o Chunk(n))

InitBuf == ShaIdle /\ BufInit /\ DgIdle /\ CoreIdle

NextBuf ==
    \/ \E n \in ChunkLens : FromSlice(n) /\ UNCHANGED <<shaVars, dgVars, coreVars>>
    \/ \E n \in ChunkLens : PushSlice(n) /\ UNCHANGED <<shaVars, dgVars, coreVars>>
    \/ \E n \in ChunkLens : PushOther(n) /\ UNCHANGED <<shaVars, dgVars, coreVars>>

SpecBuf == InitBuf /\ [][NextBuf]_vars

(***************************************************************************)
(* A Digest and its renderings                                             *)
(***************************************************************************)
\* the words a Digest is built from
WordSamples ==
    {Hex32("00000000"), Hex32("0000000f"), Hex32("00a0b0c0"),
     Hex32("01234567"), Hex32("89abcdef"), Hex32("ffffffff")}

\* the Digests rendered: every choice of three words, in five positions
DigestSamples ==
    {[data |-> <<w1, w2, w3, w1, w2>>] : w1 \in WordSamples, w2 \in WordSamples,
                                         w3 \in WordSamples}
    \cup {[data |-> <<w3, w1, w1, w2, w3>>] : w1 \in WordSamples,
                                              w2 \in WordSamples,
                                              w3 \in WordSamples}

DgInit == dg \in DigestSamples /\ dg_bytes = <<>> /\ dg_text = ""

\* digest.as_bytes()
AsBytes ==
    /\ dg_bytes = <<>>
    /\ dg_bytes' = as_bytes(dg)
    /\ UNCHANGED <<dg, dg_text>>

\* digest.to_string(), through impl fmt::Display
Display ==
    /\ dg_text = ""
    /\ dg_text' = fmt(dg)
    /\ UNCHANGED <<dg, dg_bytes>>

InitDigest == ShaIdle /\ BufIdle /\ DgInit /\ CoreIdle

NextDigest ==
    \/ AsBytes /\ UNCHANGED <<shaVars, bufVars, coreVars>>
    \/ Display /\ UNCHANGED <<shaVars, bufVars, coreVars>>

SpecDigest == InitDigest /\ [][NextDigest]_vars

(***************************************************************************)
(* The compression core on its own                                         *)
(***************************************************************************)
\* the generated blocks, and the calls chained from one state
MaxBlockSeed == 8
MaxChain == 2

\* a block of 16 words that differ from each other
BlockSample(k) ==
    [i \in 1..16 |-> <<((k * 4099) + (i * 257)) % Half,
                       ((k * 31) + (i * 8191)) % Half>>] \o <<>>

BlockSamples ==
    {BlockSample(k) : k \in 1..MaxBlockSeed}
    \cup {[i \in 1..16 |-> Hex32("00000000")] \o <<>>,
          [i \in 1..16 |-> Hex32("ffffffff")] \o <<>>}

StateSamples ==
    {InitialState,
     [i \in 1..5 |-> Hex32("00000000")] \o <<>>,
     [i \in 1..5 |-> Hex32("ffffffff")] \o <<>>,
     <<Hex32("80000000"), Hex32("00000001"), Hex32("7fffffff"),
       Hex32("deadbeef"), Hex32("0000ffff")>>}

CoreInit ==
    /\ cstate \in StateSamples
    /\ cblock \in BlockSamples
    /\ cout = <<>>
    /\ chained = 0

\* process_state(state, block)
Compress ==
    /\ cout = <<>>
    /\ cout' = <<process_state(cstate, cblock)>>
    /\ UNCHANGED <<cstate, cblock, chained>>

\* the returned state carried into the next call, as process_blocks does
Chain ==
    /\ cout # <<>>
    /\ chained < MaxChain
    /\ cstate' = cout[1]
    /\ cout' = <<>>
    /\ chained' = chained + 1
    /\ UNCHANGED cblock

InitCore == ShaIdle /\ BufIdle /\ DgIdle /\ CoreInit

NextCore ==
    \/ Compress /\ UNCHANGED <<shaVars, bufVars, dgVars>>
    \/ Chain /\ UNCHANGED <<shaVars, bufVars, dgVars>>

SpecCore == InitCore /\ [][NextCore]_vars

(***************************************************************************)
(* Reference definitions: standard SHA-1, written from its definition      *)
(* (80 rounds over an 80-word schedule, the message padded with 0x80,      *)
(* zeros and the 64-bit big-endian bit count), independently of the        *)
(* unrolled code above.                                                    *)
(***************************************************************************)
\* rotate-left by n bits, 0 < n < 32: the two shifted parts share no bit
RotL(p, n) == wrapping_add(Shl(p, n), Shr(p, 32 - n))

\* the 80-word schedule: w[i] = rol1(w[i-3] ^ w[i-8] ^ w[i-14] ^ w[i-16])
RECURSIVE CanonSchedule(_)
CanonSchedule(w) ==
    IF Len(w) = 80 THEN w
    ELSE CanonSchedule(Append(w,
             RotL(BitXor(BitXor(BitXor(w[Len(w) - 2], w[Len(w) - 7]),
                                w[Len(w) - 13]), w[Len(w) - 15]), 1)))

\* f and k of round i
CanonF(i, b, c, d) ==
    IF i < 20 THEN BitXor(BitAnd(b, BitXor(c, d)), d)
    ELSE IF i < 40 THEN BitXor(BitXor(b, c), d)
    ELSE IF i < 60 THEN BitOr(BitOr(BitAnd(b, c), BitAnd(b, d)), BitAnd(c, d))
    ELSE BitXor(BitXor(b, c), d)

CanonK(i) ==
    IF i < 20 THEN Hex32("5a827999")
    ELSE IF i < 40 THEN Hex32("6ed9eba1")
    ELSE IF i < 60 THEN Hex32("8f1bbcdc")
    ELSE Hex32("ca62c1d6")

\* rounds st.i..79: temp = rol5(a) + f + e + k + w[i]; e=d, d=c, c=rol30(b),
\* b=a, a=temp
RECURSIVE CanonRounds(_, _)
CanonRounds(st, w) ==
    IF st.i = 80 THEN st
    ELSE LET temp == wrapping_add(wrapping_add(wrapping_add(wrapping_add(
                         RotL(st.a, 5), CanonF(st.i, st.b, st.c, st.d)),
                         st.e), CanonK(st.i)), w[st.i + 1])
         IN  CanonRounds([i |-> st.i + 1, a |-> temp, b |-> st.a,
                          c |-> RotL(st.b, 30), d |-> st.c, e |-> st.d], w)

CanonicalCompress(s, block) ==
    LET st == CanonRounds([i |-> 0, a |-> s[1], b |-> s[2], c |-> s[3],
                           d |-> s[4], e |-> s[5]], CanonSchedule(block))
    IN  <<wrapping_add(s[1], st.a), wrapping_add(s[2], st.b),
          wrapping_add(s[3], st.c), wrapping_add(s[4], st.d),
          wrapping_add(s[5], st.e)>>

\* the smallest multiple of 64 that is >= n + 9
PaddedLen(n) == CHOOSE m \in (n + 9)..(n + 72) : m % 64 = 0

\* the 8-byte big-endian encoding of a bit count below 2^31
BigEndian64(bits) ==
    <<0, 0, 0, 0, (bits \div (2 ^ 24)) % 256, (bits \div (2 ^ 16)) % 256,
      (bits \div (2 ^ 8)) % 256, bits % 256>>

\* s ++ [0x80] ++ zero bytes ++ the bit length 8 * n
PaddedMessage(s) ==
    s \o <<128>> \o Zeros(PaddedLen(Len(s)) - Len(s) - 9) \o BigEndian64(8 * Len(s))

\* the k-th 64-byte block of a padded message, as 16 big-endian words
MessageBlock(m, k) ==
    [i \in 1..16 |->
        LET o == (64 * (k - 1)) + (4 * (i - 1))
        IN  <<(m[o + 1] * 256) + m[o + 2], (m[o + 3] * 256) + m[o + 4]>>] \o <<>>

RECURSIVE RefFold(_, _)
RefFold(st, m) ==
    IF st.k > Len(m) \div 64 THEN st.s
    ELSE RefFold([k |-> st.k + 1,
                  s |-> CanonicalCompress(st.s, MessageBlock(m, st.k))], m)

\* the standard SHA-1 digest of s, as five words
RefSha1(s) ==
    RefFold([k |-> 1,
             s |-> <<Hex32("67452301"), Hex32("efcdab89"), Hex32("98badcfe"),
                     Hex32("10325476"), Hex32("c3d2e1f0")>>],
            PaddedMessage(s))

\* one byte as two lowercase hexadecimal digits
HexByte(b) ==
    SubSeq(HexChars, (b \div 16) + 1, (b \div 16) + 1)
    \o SubSeq(HexChars, (b % 16) + 1, (b % 16) + 1)

\* the lowercase hexadecimal encoding of a byte sequence
RECURSIVE HexOfBytes(_)
HexOfBytes(bs) ==
    IF Len(bs) = 0 THEN ""
    ELSE HexByte(Head(bs)) \o HexOfBytes(Tail(bs))

\* byte j (0 = most significant) of a word: (d >> (24 - 8j)) mod 256, with
\* d = hi * 2^16 + lo
WordByte(p, j) ==
    CASE j = 0 -> p[1] \div 256
      [] j = 1 -> p[1] % 256
      [] j = 2 -> p[2] \div 256
      [] j = 3 -> p[2] % 256

\* the 20 bytes of five words, most significant byte of each word first
WordsBytes(ws) == [n \in 1..(4 * Len(ws)) |->
                      WordByte(ws[((n - 1) \div 4) + 1], (n - 1) % 4)] \o <<>>

\* the bytes of the blocks handed to process_state, in call order
FedBytes ==
    [n \in 1..(64 * Len(fed)) |->
        WordByte(fed[((n - 1) \div 64) + 1].block[(((n - 1) % 64) \div 4) + 1],
                 (n - 1) % 4)] \o <<>>

\* the calls made by the loop of process_blocks, and those made by digest
ByLoop(c) == c.by = "process_blocks"
ByDigest(c) == c.by = "digest"
FullCalls == Len(SelectSeq(fed, ByLoop))
FinalCalls == Len(SelectSeq(fed, ByDigest))

\* sha1(input) has returned
Sha1Done == pc = "done" /\ entry = "sha1"

(***************************************************************************)
(* Claims                                                                  *)
(***************************************************************************)
\* C1: the rendering of sha1(s) is the standard SHA-1 digest of s, for
\* every input; and the seven rows the claim lists (rows 1..7 of the table
\* of it_works: the two fox sentences, "", "testing\n" and the all-'x'
\* inputs of lengths 57, 119 and 55) render as the table says.
C1_Sha1IsStandard ==
    Sha1Done =>
        /\ fmt(results[1]) = HexOfBytes(WordsBytes(RefSha1(input)))
        /\ \A t \in 1..7 : input = TestBytes[t] => fmt(results[1]) = tests[t][2]

C1_Witness ==
    /\ Sha1Done
    /\ input = TestBytes[1]
    /\ fmt(results[1]) = "2fd4e1c67a2d28fced849ee1bb76e7391b93eb12"

\* C2: for an input of n bytes, t = n mod 64: floor(n/64) compression calls
\* on the full 64-byte blocks of the input, in order, then exactly one
\* final call when t < 56 and exactly two when t >= 56 (so one, never none,
\* when n is a multiple of 64).
C2_CompressionCalls ==
    pc = "done" =>
        LET n == Len(input)
        IN  /\ FullCalls = n \div 64
            /\ \A k \in 1..(n \div 64) :
                   /\ ByLoop(fed[k])
                   /\ fed[k].block
                        = MessageBlock(SubSeq(input, 1, 64 * (n \div 64)), k)
            /\ FinalCalls = (IF n % 64 < 56 THEN 1 ELSE 2)
            /\ Len(fed) = FullCalls + FinalCalls

C2_Witness ==
    /\ pc = "done"
    /\ Len(input) = 64
    /\ FullCalls = 1
    /\ FinalCalls = 1

\* C3: the blocks fed to the compression core, concatenated in call order
\* and read as big-endian words, are s ++ [0x80] ++ zeros ++ the 8-byte
\* big-endian bit length, of total length the smallest multiple of 64 that
\* is >= n + 9.
C3_FedIsPaddedMessage ==
    pc = "done" =>
        /\ FedBytes = PaddedMessage(input)
        /\ Len(FedBytes) = PaddedLen(Len(input))

C3_Witness ==
    /\ pc = "done"
    /\ Len(input) = 125
    /\ input # XInput(125)
    /\ Len(FedBytes) = 192

\* C4: for an input of at most BUFFER_SIZE bytes,
\* sha1_from_const_slice(&ConstSlice::from_slice(s)) returns the digest
\* that sha1(s) returns.
C4_ConstSliceSameDigest ==
    (pc = "done" /\ entry = "sha1_from_const_slice") =>
        /\ Len(results) = 2
        /\ results[2] = results[1]

C4_Witness ==
    /\ pc = "done"
    /\ entry = "sha1_from_const_slice"
    /\ Len(input) = 100
    /\ Len(data) = BUFFER_SIZE
    /\ results[2] = results[1]

\* C5: an append with head + amount > BUFFER_SIZE ends in a panic: no
\* ConstSlice is returned and no position past the end of the array has
\* been stored to.
C5_OverflowPanics ==
    lastop.head + lastop.amount > BUFFER_SIZE =>
        /\ status = "panicked"
        /\ buf = <<>>
        /\ stored <= BUFFER_SIZE

C5_Witness ==
    /\ lastop.op = "push_other"
    /\ lastop.head = 400
    /\ lastop.amount = BUFFER_SIZE
    /\ status = "panicked"
    /\ stored = BUFFER_SIZE

\* C6: the cursor of every ConstSlice that new, from_slice, push_slice and
\* push_other return is at most BUFFER_SIZE.
C6_CursorWithinCapacity ==
    \A k \in 1..Len(buf) : ConstSlice_len(buf[k]) <= BUFFER_SIZE

C6_Witness ==
    /\ pushes = 3
    /\ Len(buf) = 1
    /\ ConstSlice_len(buf[1]) = BUFFER_SIZE

\* C7 as stated: as_slice() has exactly len() elements, the appended bytes
\* in order.
C7_Original ==
    \A k \in 1..Len(buf) :
        /\ Len(ConstSlice_as_slice(buf[k])) = ConstSlice_len(buf[k])
        /\ ConstSlice_as_slice(buf[k]) = content

\* C7, amended: as_slice() is the whole backing array, BUFFER_SIZE elements
\* whatever len() is; its first len() elements are the appended bytes in
\* order and every element after them is zero.
C7_AsSliceIsWholeArray ==
    \A k \in 1..Len(buf) :
        LET s == ConstSlice_as_slice(buf[k])
            n == ConstSlice_len(buf[k])
        IN  /\ Len(s) = BUFFER_SIZE
            /\ n = Len(content)
            /\ SubSeq(s, 1, n) = content
            /\ \A j \in (n + 1)..BUFFER_SIZE : s[j] = 0

C7_Witness ==
    /\ Len(buf) = 1
    /\ pushes = 2
    /\ ConstSlice_len(buf[1]) = 401
    /\ Len(ConstSlice_as_slice(buf[1])) = BUFFER_SIZE

\* C8: as_bytes() is the 20 bytes whose byte 4k + j is
\* (dk >> (24 - 8j)) mod 256, and the Display rendering is 40 characters,
\* all in 0-9a-f, the lowercase hexadecimal encoding of those 20 bytes.
C8_DigestRenderings ==
    /\ dg_bytes # <<>> =>
           /\ Len(dg_bytes) = 20
           /\ \A k \in 0..4 : \A j \in 0..3 :
                  dg_bytes[(4 * k) + j + 1] = WordByte(dg.data[k + 1], j)
    /\ dg_text # "" =>
           /\ Len(dg_text) = 40
           /\ \A n \in 1..Len(dg_text) :
                  \E h \in 1..16 : SubSeq(dg_text, n, n) = SubSeq(HexChars, h, h)
           /\ dg_text = HexOfBytes(WordsBytes(dg.data))

C8_Witness ==
    /\ dg_bytes # <<>>
    /\ dg_text = "0000000f00a0b0c0ffffffff0000000f00a0b0c0"

\* C9 as stated: the 59-byte all-'x' input renders as 025ecbd5... and takes
\* the single-final-block path.
C9_Original ==
    (Sha1Done /\ input = XInput(59)) =>
        /\ fmt(results[1]) = "025ecbd5d70f8fb3c5457cd96bab13fda305dc59"
        /\ FinalCalls = 1

\* C9, amended: the all-'x' input that renders as 025ecbd5... is the one of
\* the test, 57 bytes long, and it is finalized through the
\* double-final-block path (two final compression calls).
C9_X57KnownAnswer ==
    (Sha1Done /\ input = XInput(57)) =>
        /\ fmt(results[1]) = "025ecbd5d70f8fb3c5457cd96bab13fda305dc59"
        /\ FinalCalls = 2

C9_Witness ==
    /\ Sha1Done
    /\ input = XInput(57)
    /\ input = TestBytes[5]
    /\ FullCalls = 0

\* C10: process_state returns the five words of the canonical compression:
\* 80 rounds over the 80-word schedule, added to the input state.
C10_MatchesCanonical ==
    cout # <<>> => cout[1] = CanonicalCompress(cstate, cblock)

C10_Witness ==
    /\ cout # <<>>
    /\ chained = 1
    /\ cblock = BlockSample(3)

\* an append that returned a ConstSlice, made on a ConstSlice
C11_Appended ==
    /\ Len(buf) = 1 /\ Len(buf') = 1
    /\ lastop'.op \in {"push_slice", "push_other"}
    /\ pushes' = pushes + 1

\* C11: after any sequence of push_slice and push_other calls that fits the
\* capacity, len() is the sum of the pushed lengths (every append that
\* returns adds its amount to len()) and the first len() bytes are the
\* concatenation, in call order, of the pushed bytes; an append never
\* changes a byte at an index below the length the buffer had before it.
C11_PushesConcatenate ==
    /\ [](\A k \in 1..Len(buf) :
             /\ ConstSlice_len(buf[k]) = Len(content)
             /\ \A j \in 1..Len(content) :
                    ConstSlice_get(buf[k], j - 1) = content[j])
    /\ [][C11_Appended =>
             /\ ConstSlice_len(buf'[1]) = ConstSlice_len(buf[1]) + lastop'.amount
             /\ \A j \in 0..(ConstSlice_len(buf[1]) - 1) :
                    ConstSlice_get(buf'[1], j) = ConstSlice_get(buf[1], j)]_vars

C11_Witness ==
    /\ pushes = 3
    /\ lastop = [op |-> "push_other", head |-> 401, amount |-> 400]
    /\ Len(buf) = 1
    /\ ConstSlice_len(buf[1]) = 801
    /\ content = (Chunk(1) \o Chunk(400)) \o Chunk(400)

=============================================================================
